---- MODULE Spec2Model ----
(***************************************************************************)
(* ActivityTracker (src/index.tsx): the module-level state of the plugin,  *)
(* its three Flux handlers, the registry and clear operations, and the     *)
(* statistics computed by the dashboard (calculateStats).                  *)
(*                                                                         *)
(* The capacities of the source (MAX_LOGS = 1000, the 1000/500 sizes of    *)
(* the processed-id clean-up) are scaled down: the code compares against   *)
(* them and never computes with them, so the model keeps the comparisons   *)
(* and takes the numbers small enough for every case to be reached.        *)
(***************************************************************************)
EXTENDS Integers, Sequences, FiniteSets, TLC

VARIABLES
    activityLogs,         \* let activityLogs: ActivityLog[]
    trackedUserIds,       \* let trackedUserIds = new Set<string>()
    processedMessageIds,  \* const processedMessageIds = new Set<string>(), in insertion order
    lastKnownStatus,      \* const lastKnownStatus = new Map<string, string>()
    autoTrackAll,         \* settings.store.autoTrackAll
    store,                \* settings.store.trackedUsers / settings.store.activityLogs
    started,              \* the handlers are subscribed to the FluxDispatcher
    notifyStatus,         \* settings.store.notifyStatus
    notifyVoice,          \* settings.store.notifyVoice
    notifications,        \* the calls of showNotification made by the last dispatch
    now,                  \* the clock read by Date.now()
    appended,             \* history: the last MAX_LOGS entries put in the log since it was last emptied
    pushes,               \* history: how many entries were put in the log since it was last emptied
    ev,                   \* history: the last operation and its argument
    stats                 \* the value last returned by calculateStats

vars == <<activityLogs, trackedUserIds, processedMessageIds, lastKnownStatus,
          autoTrackAll, store, started, notifyStatus, notifyVoice, notifications,
          now, appended, pushes, ev, stats>>

\* the notification settings and the notifications shown
notify == <<notifyStatus, notifyVoice, notifications>>

-----------------------------------------------------------------------------
(* Bounds and scaled capacities *)

\* const MAX_LOGS = 1000, scaled
MAX_LOGS == 2

\* processedMessageIds.size > 1000, scaled
MAX_PROCESSED == 2

\* idsArray.slice(-500), scaled
KEEP_PROCESSED == 1

\* the longest updates / voiceStates array of one dispatch
MaxBatch == 2

\* pushes allowed before the model stops ingesting: enough to overflow the log
MaxAppends == MAX_LOGS + 2

\* the instants Date.now() can return
Instants == {1, 2}

-----------------------------------------------------------------------------
(* Values *)

Undefined == "undefined"

Users == {"u1", "u2"}

Statuses == {"online", "idle"}

\* `${user.username}` of the user UserStore.getUser returns
UsernameOf(userId) == IF userId = "u1" THEN "alice" ELSE "bob"

Last(n, s) == IF Len(s) <= n THEN s ELSE SubSeq(s, Len(s) - n + 1, Len(s))

\* obj?.field of a JavaScript object: undefined when the property is absent
Get(obj, field) == IF field \in DOMAIN obj THEN obj[field] ELSE Undefined

-----------------------------------------------------------------------------
(* Persistence *)

\* A settings string is a record: text is "" for the default, "json" for a JSON
\* text, whose document and indentation are the fields json and indent, and
\* "corrupt" for a text JSON.parse rejects.
EmptyText == [text |-> ""]

CorruptText == [text |-> "corrupt"]

\* Array.from(set)
RECURSIVE ArrayFrom(_)
ArrayFrom(set) ==
    IF set = {} THEN <<>>
    ELSE LET x == CHOOSE y \in set : TRUE IN <<x>> \o ArrayFrom(set \ {x})

\* new Set(array)
NewSet(array) == { array[i] : i \in 1..Len(array) }

\* the JSON object of a JavaScript object: a property whose value is undefined is
\* left out. strings: the properties that hold a string or undefined.
StringifyObject(obj, strings) ==
    [f \in { g \in DOMAIN obj : g \in strings => obj[g] # Undefined } |-> obj[f]]

\* the property of an ActivityLog that holds the payload of its type
PayloadKey(log) ==
    CASE log.type = "status" -> "status"
      [] log.type = "activity" -> "activities"
      [] log.type = "voice" -> "voiceChannel"
      [] log.type = "message" -> "message"

\* the JSON object of one ActivityLog
StringifyLog(log) ==
    LET top == StringifyObject(log, {"userId", "username", "type"})
        key == PayloadKey(log)
    IN  IF log.type = "activity" THEN top
        ELSE [top EXCEPT ![key] = StringifyObject(log[key], DOMAIN log[key])]

\* JSON.stringify(value, null, indent) of a JSON document
JSONStringify(doc, indent) == [text |-> "json", json |-> doc, indent |-> indent]

\* mutant: the log is written newest first, the order the dashboard shows
StringifyLogsNewestFirst(logs, indent) ==
    JSONStringify([i \in 1..Len(logs) |-> StringifyLog(logs[Len(logs) + 1 - i])], indent)

\* JSON.stringify(activityLogs, null, indent)
StringifyLogs(logs, indent) ==
    JSONStringify([i \in 1..Len(logs) |-> StringifyLog(logs[i])], indent)

\* JSON.parse(text) returns; it throws a SyntaxError otherwise
Parses(text) == text.text = "json"

\* JSON.parse(text) of a text it accepts: white space is skipped
JSONParse(text) == text.json

\* a settings string used as a condition: "" is falsy
TruthyText(text) == text.text # ""

\* saveToSettings, as a function of the values it reads
Saved(tracked, logs) ==
    [trackedUsers |-> JSONStringify(ArrayFrom(tracked), 0),
     activityLogs |-> StringifyLogs(logs, 0)]

\* exportLogs()
exportLogs(logs) == StringifyLogs(logs, 2)

\* loadFromSettings(): the tracked set and the log it leaves. A throw of
\* JSON.parse is caught after the assignments made before it.
loadFromSettings(tracked, logs, settings) ==
    IF TruthyText(settings.trackedUsers) /\ ~Parses(settings.trackedUsers)
    THEN [tracked |-> tracked, logs |-> logs]
    ELSE LET loaded == IF TruthyText(settings.trackedUsers)
                       THEN NewSet(JSONParse(settings.trackedUsers)) ELSE tracked
         IN  IF TruthyText(settings.activityLogs) /\ ~Parses(settings.activityLogs)
             THEN [tracked |-> loaded, logs |-> logs]
             ELSE [tracked |-> loaded,
                   logs |-> IF TruthyText(settings.activityLogs)
                            THEN JSONParse(settings.activityLogs) ELSE logs]

-----------------------------------------------------------------------------
(* handlePresenceUpdates *)

\* the ActivityLog pushed for a status change
StatusLog(userId, t, status, clientStatus) ==
    [userId |-> userId, username |-> UsernameOf(userId), timestamp |-> t,
     type |-> "status", status |-> [status |-> status, clientStatus |-> clientStatus]]

\* the ActivityLog pushed for a non-empty activity list
ActivityLogOf(userId, t, activities) ==
    [userId |-> userId, username |-> UsernameOf(userId), timestamp |-> t,
     type |-> "activity", activities |-> activities]

\* mutant: the autoTrackAll setting is not read
ShouldTrackListed(auto, tracked, userId) == userId \in tracked

\* mutant: the admission test is lost, every subject is admitted
ShouldTrackAnyone(auto, tracked, userId) == TRUE

\* settings.store.autoTrackAll || trackedUserIds.has(id)
ShouldTrack(auto, tracked, userId) == auto \/ userId \in tracked

\* mutant: the clientStatus of the update is not required
StatusChangedNoMarker(currentStatus, previousStatus, clientStatus) ==
    currentStatus # Undefined /\ currentStatus # previousStatus

\* mutant: the comparison with the previous status is lost
StatusChangedAnyStatus(currentStatus, previousStatus, clientStatus) ==
    currentStatus # Undefined /\ clientStatus # Undefined

\* currentStatus && currentStatus !== previousStatus && update.clientStatus
StatusChanged(currentStatus, previousStatus, clientStatus) ==
    /\ currentStatus # Undefined
    /\ currentStatus # previousStatus
    /\ clientStatus # Undefined

\* mutant: one activity is not enough
HasSeveralActivities(activities) == Len(activities) > 1

\* activities.length > 0, activities being update.activities || []
HasActivities(activities) == Len(activities) > 0

\* activityLogs.push(log), with the history of the pushes
Push(st, log) ==
    [st EXCEPT !.logs = Append(st.logs, log),
               !.appended = Last(MAX_LOGS, Append(st.appended, log)),
               !.pushes = st.pushes + 1]

\* mutant: the status logged is not remembered
SetLastKnownSkipped(st, userId, status) == st

\* lastKnownStatus.set(user.id, currentStatus)
SetLastKnown(st, userId, status) == [st EXCEPT !.lks[userId] = status]

\* saveToSettings()
Save(st, tracked) == [st EXCEPT !.store = Saved(tracked, st.logs)]

\* if (activityLogs.length > MAX_LOGS) activityLogs.shift()
Evict(logs) == IF Len(logs) > MAX_LOGS THEN Tail(logs) ELSE logs

\* showNotification(..) of a status change, if (notifyStatus && previousStatus)
NotifyStatus(st, userId, previousStatus, currentStatus) ==
    IF st.notifyStatus /\ previousStatus # Undefined
    THEN [st EXCEPT !.shown = Append(st.shown,
             [about |-> "status", userId |-> userId, body |-> currentStatus])]
    ELSE st

\* One iteration of the for loop over data.updates. st carries the state the
\* loop reads and writes: logs, lks (lastKnownStatus), store, now, appended,
\* pushes, the notification settings and the notifications shown.
PresenceUpdate(st, auto, tracked, update) ==
    IF update.userId = Undefined THEN st
    ELSE IF ~ShouldTrack(auto, tracked, update.userId) THEN st
    ELSE IF ~update.resolved THEN st
    ELSE
      LET userId == update.userId
          previousStatus == st.lks[userId]
          changed == StatusChanged(update.status, previousStatus, update.clientStatus)
          slog == StatusLog(userId, st.now, update.status, update.clientStatus)
          st1 == IF changed
                 THEN NotifyStatus(
                          Save(Push(SetLastKnown(st, userId, update.status), slog), tracked),
                          userId, previousStatus, update.status)
                 ELSE st
          t2 == IF st.now + update.dt \in Instants THEN st.now + update.dt ELSE st.now
          alog == ActivityLogOf(userId, t2, update.activities)
          st2 == IF HasActivities(update.activities)
                 THEN Save(Push([st1 EXCEPT !.now = t2], alog), tracked)
                 ELSE st1
      IN  [st2 EXCEPT !.logs = Evict(st2.logs)]

\* mutant: an update without a user id ends the loop
RECURSIVE PresenceLoopBreaks(_, _, _, _)
PresenceLoopBreaks(st, auto, tracked, updates) ==
    IF updates = <<>> THEN st
    ELSE IF Head(updates).userId = Undefined THEN st
    ELSE PresenceLoopBreaks(PresenceUpdate(st, auto, tracked, Head(updates)),
                            auto, tracked, Tail(updates))

RECURSIVE PresenceLoop(_, _, _, _)
PresenceLoop(st, auto, tracked, updates) ==
    IF updates = <<>> THEN st
    ELSE PresenceLoop(PresenceUpdate(st, auto, tracked, Head(updates)),
                      auto, tracked, Tail(updates))

\* handlePresenceUpdates(data): data.updates missing, or the loop over it
PresenceResult(st, auto, tracked, data) ==
    IF "updates" \notin DOMAIN data THEN st
    ELSE PresenceLoop(st, auto, tracked, data.updates)

-----------------------------------------------------------------------------
(* handleVoiceStateUpdate *)

\* mutant: only the current channel decides, a change of channel is a join
VoiceActionNoMove(prevChannelId, currentChannelId) ==
    IF currentChannelId # Undefined THEN "join" ELSE "leave"

\* !prevChannelId && currentChannelId ? "join" :
\*  prevChannelId && !currentChannelId ? "leave" : "move"
VoiceAction(prevChannelId, currentChannelId) ==
    IF prevChannelId = Undefined /\ currentChannelId # Undefined THEN "join"
    ELSE IF prevChannelId # Undefined /\ currentChannelId = Undefined THEN "leave"
    ELSE "move"

\* a || b of two values that are undefined or non-empty strings
Or(a, b) == IF a # Undefined THEN a ELSE b

\* mutant: one label for every channel without a name
ChannelLabelUnknown(id) == "Unknown Channel"

\* `Channel ID: ${id}`
ChannelLabel(id) ==
    CASE id = "c1" -> "Channel ID: c1"
      [] id = "c2" -> "Channel ID: c2"
      [] id = "null" -> "Channel ID: null"
      [] OTHER -> "Channel ID: undefined"

\* `Server ID: ${id}`
ServerLabel(id) == IF id = "g1" THEN "Server ID: g1" ELSE "Server ID: undefined"

\* the ActivityLog pushed for one voice state
VoiceLog(state, t) ==
    LET prevChannelId == state.oldChannelId
        currentChannelId == state.channelId
    IN  [userId |-> state.userId, username |-> UsernameOf(state.userId),
         timestamp |-> t, type |-> "voice",
         voiceChannel |->
           [channelId |-> Or(Or(currentChannelId, prevChannelId), "unknown"),
            channelName |-> Or(state.channelName,
                               ChannelLabel(Or(Or(currentChannelId, prevChannelId), "null"))),
            action |-> VoiceAction(prevChannelId, currentChannelId),
            guildId |-> Or(state.guildId, "unknown"),
            guildName |-> Or(state.guildName, ServerLabel(state.guildId))]]

\* showNotification(..) of a voice change,
\* if (notifyVoice && currentChannelId !== prevChannelId)
NotifyVoice(st, userId, prevChannelId, currentChannelId) ==
    IF st.notifyVoice /\ currentChannelId # prevChannelId
    THEN [st EXCEPT !.shown = Append(st.shown,
             [about |-> "voice", userId |-> userId,
              body |-> IF currentChannelId # Undefined
                       THEN "joined a new voice channel" ELSE "left their voice channel"])]
    ELSE st

\* One call of the forEach callback over data.voiceStates
VoiceState(st, auto, tracked, state) ==
    IF ~ShouldTrack(auto, tracked, state.userId) THEN st
    ELSE IF ~state.resolved THEN st
    ELSE
      LET st1 == Push(st, VoiceLog(state, st.now))
      IN  NotifyVoice(Save([st1 EXCEPT !.logs = Evict(st1.logs)], tracked),
                      state.userId, state.oldChannelId, state.channelId)

RECURSIVE VoiceLoop(_, _, _, _)
VoiceLoop(st, auto, tracked, voiceStates) ==
    IF voiceStates = <<>> THEN st
    ELSE VoiceLoop(VoiceState(st, auto, tracked, Head(voiceStates)),
                   auto, tracked, Tail(voiceStates))

\* handleVoiceStateUpdate(data): data.voiceStates missing, or the forEach over it
VoiceResult(st, auto, tracked, data) ==
    IF "voiceStates" \notin DOMAIN data THEN st
    ELSE VoiceLoop(st, auto, tracked, data.voiceStates)

-----------------------------------------------------------------------------
(* handleMessageCreate *)

\* the ActivityLog pushed for a message
MessageLog(message, t) ==
    [userId |-> message.authorId, username |-> message.authorName,
     timestamp |-> t, type |-> "message",
     message |->
       [content |-> message.content,
        channelId |-> message.channel_id,
        channelName |-> Or(message.channelName, ChannelLabel(message.channel_id)),
        guildId |-> message.guild_id,
        guildName |-> Or(message.guildName,
                         IF message.guild_id # Undefined
                         THEN ServerLabel(message.guild_id) ELSE "DM")]]

\* s.has(x) of a Set kept as its insertion-ordered sequence
Has(s, x) == \E i \in 1..Len(s) : s[i] = x

\* mutant: the duplicate check is lost
AlreadyProcessedNever(ids, id) == FALSE

\* message.id && processedMessageIds.has(message.id)
AlreadyProcessed(ids, id) == id # Undefined /\ Has(ids, id)

\* mutant: the id is added whether the message carries one or not
RememberAnyId(ids, id) == IF ~Has(ids, id) THEN Append(ids, id) ELSE ids

\* if (message.id) processedMessageIds.add(message.id)
Remember(ids, id) == IF id # Undefined /\ ~Has(ids, id) THEN Append(ids, id) ELSE ids

\* mutant: slice(0, 500) for slice(-500), the oldest ids are kept
CleanUpKeepsOldest(ids) ==
    IF Len(ids) > MAX_PROCESSED THEN SubSeq(ids, 1, KEEP_PROCESSED) ELSE ids

\* if (size > 1000) { idsArray = Array.from(ids); ids.clear(); idsArray.slice(-500).forEach(add) }
CleanUp(ids) == IF Len(ids) > MAX_PROCESSED THEN Last(KEEP_PROCESSED, ids) ELSE ids

\* handleMessageCreate(data). st also carries ids (processedMessageIds).
MessageResult(st, auto, tracked, message) ==
    IF message.authorId = Undefined THEN st
    ELSE IF ~ShouldTrack(auto, tracked, message.authorId) THEN st
    ELSE IF AlreadyProcessed(st.ids, message.id) THEN st
    ELSE
      LET st1 == Push([st EXCEPT !.ids = Remember(st.ids, message.id)],
                      MessageLog(message, st.now))
          st2 == Save([st1 EXCEPT !.logs = Evict(st1.logs)], tracked)
      IN  [st2 EXCEPT !.ids = CleanUp(st2.ids)]

-----------------------------------------------------------------------------
(* calculateStats *)

Null == "null"

\* new Date(timestamp).getHours(), in a zone at UTC+0
HourOf(timestamp) == (timestamp \div (60 * 60 * 1000)) % 24

\* Math.round(ms / (1000 * 60)) of a sum of millisecond differences
RoundMinutes(ms) == (ms + 30 * 1000) \div (1000 * 60)

\* userId ? logs.filter(l => l.userId === userId) : logs
UserSpecificLogs(logs, userId) ==
    IF userId # Null THEN SelectSeq(logs, LAMBDA l : l.userId = userId) ELSE logs

\* logs.filter(l => l.type === type).length
CountOfType(logs, type) == Len(SelectSeq(logs, LAMBDA l : l.type = type))

\* for (let i = 0; i < 24; i++) hourCounts[i] = 0, then hourCounts[hour]++ per log
RECURSIVE HourCounts(_)
HourCounts(logs) ==
    IF logs = <<>> THEN [h \in 0..23 |-> 0]
    ELSE LET before == HourCounts(SubSeq(logs, 1, Len(logs) - 1))
             hour == HourOf(logs[Len(logs)].timestamp)
         IN  [before EXCEPT ![hour] = before[hour] + 1]

\* Object.entries(hourCounts): the integer keys in ascending order
Entries(hourCounts) == [i \in 1..24 |-> <<i - 1, hourCounts[i - 1]>>]

\* mutant: a - b for b - a, the counts are sorted ascending
CompareAscending(x, y) == x[2] - y[2]

\* the comparator ([, a], [, b]) => b - a
Compare(x, y) == y[2] - x[2]

\* Array.prototype.sort is stable: x goes behind every element that does not
\* compare greater than it
RECURSIVE InsertSorted(_, _)
InsertSorted(sorted, x) ==
    IF sorted = <<>> THEN <<x>>
    ELSE IF Compare(Head(sorted), x) <= 0
         THEN <<Head(sorted)>> \o InsertSorted(Tail(sorted), x)
         ELSE <<x>> \o sorted

RECURSIVE Sort(_)
Sort(entries) ==
    IF entries = <<>> THEN <<>>
    ELSE InsertSorted(Sort(SubSeq(entries, 1, Len(entries) - 1)), entries[Len(entries)])

\* Object.entries(hourCounts).sort(...)[0]
MostActiveHour(hourCounts) == Sort(Entries(hourCounts))[1]

\* the null of lastJoinTime: number | null, outside the timestamps
NullTime == 0 - 1

\* lastJoinTime used as a condition: null and 0 are falsy
Truthy(x) == x # NullTime /\ x # 0

\* one call of the forEach callback over voiceLogs;
\* acc = [total |-> milliseconds summed, lastJoinTime |-> number | null].
\* The code adds each difference divided by 1000 * 60; the model adds the
\* milliseconds and divides once, the same number while the quotients are exact.
VoiceStep(acc, log) ==
    LET action == log.voiceChannel.action
    IN  IF action = "join" THEN [acc EXCEPT !.lastJoinTime = log.timestamp]
        ELSE IF action = "leave" /\ Truthy(acc.lastJoinTime)
             THEN [total |-> acc.total + (log.timestamp - acc.lastJoinTime),
                   lastJoinTime |-> NullTime]
             ELSE acc

RECURSIVE VoiceFold(_, _)
VoiceFold(acc, voiceLogs) ==
    IF voiceLogs = <<>> THEN acc
    ELSE VoiceFold(VoiceStep(acc, Head(voiceLogs)), Tail(voiceLogs))

\* the milliseconds totalVoiceMinutes holds before Math.round
VoiceMillis(logs) ==
    VoiceFold([total |-> 0, lastJoinTime |-> NullTime],
              SelectSeq(logs, LAMBDA l : l.type = "voice")).total

\* calculateStats(userId) over the logs the dashboard was given
calculateStats(logs, userId) ==
    LET userSpecificLogs == UserSpecificLogs(logs, userId)
        hourCounts == HourCounts(userSpecificLogs)
        mostActiveHour == MostActiveHour(hourCounts)
    IN  [messageCount |-> CountOfType(userSpecificLogs, "message"),
         activityCount |-> CountOfType(userSpecificLogs, "activity"),
         voiceCount |-> CountOfType(userSpecificLogs, "voice"),
         statusCount |-> CountOfType(userSpecificLogs, "status"),
         totalLogs |-> Len(userSpecificLogs),
         mostActiveHour |-> [hour |-> mostActiveHour[1], events |-> mostActiveHour[2]],
         hourCounts |-> hourCounts,
         totalVoiceMinutes |-> RoundMinutes(VoiceMillis(userSpecificLogs))]

-----------------------------------------------------------------------------
(* The events the environment dispatches *)

\* one element of data.updates of PRESENCE_UPDATES. resolved: UserStore.getUser
\* finds the user; dt: the clock moved between the two Date.now() of the iteration.
\* Fields the code does not read on the path taken are left at one value.
PresenceUpdates ==
    { u \in [userId : Users \cup {Undefined}, resolved : BOOLEAN,
             status : Statuses \cup {Undefined}, clientStatus : {Undefined, "desktop"},
             activities : {<<>>, <<"game">>}, dt : {0, 1}] :
        /\ (u.userId = Undefined => ~u.resolved)
        /\ (~u.resolved => u.status = Undefined /\ u.activities = <<>>)
        /\ (u.status = Undefined => u.clientStatus = Undefined)
        /\ (u.activities = <<>> => u.dt = 0) }

\* one element of data.voiceStates of VOICE_STATE_UPDATES. channelName, guildName:
\* what ChannelStore.getChannel(..)?.name and GuildStore.getGuild(..)?.name give.
VoiceStates ==
    { v \in [userId : Users \cup {Undefined}, resolved : BOOLEAN,
             oldChannelId : {Undefined, "c1", "c2"}, channelId : {Undefined, "c1", "c2"},
             guildId : {"g1"}, channelName : {"general"}, guildName : {"home"}] :
        /\ (v.userId = Undefined => ~v.resolved)
        /\ (~v.resolved => v.oldChannelId = Undefined /\ v.channelId = Undefined) }

AllMessageIds == <<"m1", "m2", "m3", "m4", "m5">>

\* enough distinct ids to overflow processedMessageIds
MessageIds == { AllMessageIds[i] : i \in 1..(MAX_PROCESSED + 1) }

\* the text of the message with this id: a redelivery carries the same text
ContentOf(id) ==
    CASE id = "m1" -> "text 1" [] id = "m2" -> "text 2" [] id = "m3" -> "text 3"
      [] id = "m4" -> "text 4" [] id = "m5" -> "text 5" [] OTHER -> "text"

\* data.message of MESSAGE_CREATE. author.username is the name UserStore knows.
Messages ==
    { m \in [authorId : Users \cup {Undefined}, authorName : {"alice", "bob", Undefined},
             id : MessageIds \cup {Undefined},
             content : { ContentOf(i) : i \in MessageIds \cup {Undefined} },
             channel_id : {"c1"}, channelName : {"general"},
             guild_id : {"g1"}, guildName : {"home"}] :
        /\ m.authorName = (IF m.authorId = Undefined THEN Undefined ELSE UsernameOf(m.authorId))
        /\ m.content = ContentOf(m.id)
        /\ (m.authorId = Undefined => m.id = Undefined) }

\* the sequences over S of at most n elements
RECURSIVE SeqsUpTo(_, _)
SeqsUpTo(S, n) ==
    IF n = 0 THEN {<<>>}
    ELSE LET shorter == SeqsUpTo(S, n - 1)
         IN  shorter \cup { Append(q, x) : q \in { r \in shorter : Len(r) = n - 1 }, x \in S }

\* the payloads of a PRESENCE_UPDATES dispatch: updates missing, or up to n of S
PresenceData(S, n) ==
    { [type |-> "PRESENCE_UPDATES", updates |-> q] : q \in SeqsUpTo(S, n) }
      \cup { [type |-> "PRESENCE_UPDATES"] }

\* the payloads of a VOICE_STATE_UPDATES dispatch: voiceStates missing, or up to n of S
VoiceData(S, n) ==
    { [type |-> "VOICE_STATE_UPDATES", voiceStates |-> q] : q \in SeqsUpTo(S, n) }
      \cup { [type |-> "VOICE_STATE_UPDATES"] }

-----------------------------------------------------------------------------
(* State machine *)

NoStats == [none |-> TRUE]

Init ==
    /\ activityLogs = <<>>
    /\ trackedUserIds = {}
    /\ processedMessageIds = <<>>
    /\ lastKnownStatus = [u \in Users |-> Undefined]
    /\ autoTrackAll = FALSE
    /\ store = [trackedUsers |-> EmptyText, activityLogs |-> EmptyText]
    /\ started = TRUE
    /\ notifyStatus = TRUE
    /\ notifyVoice = FALSE
    /\ notifications = <<>>
    /\ now = 1
    /\ appended = <<>>
    /\ pushes = 0
    /\ ev = [op |-> "init"]
    /\ stats = NoStats

\* the state a handler reads and writes, as one record
Cur == [logs |-> activityLogs, lks |-> lastKnownStatus, ids |-> processedMessageIds,
        store |-> store, now |-> now, appended |-> appended, pushes |-> pushes,
        notifyStatus |-> notifyStatus, notifyVoice |-> notifyVoice, shown |-> <<>>]

\* a handler's result written back; the model stops ingesting after MaxAppends pushes
Commit(st) ==
    /\ st.pushes <= MaxAppends
    /\ activityLogs' = st.logs
    /\ lastKnownStatus' = st.lks
    /\ processedMessageIds' = st.ids
    /\ store' = st.store
    /\ now' = st.now
    /\ appended' = st.appended
    /\ pushes' = st.pushes
    /\ notifications' = st.shown
    /\ UNCHANGED <<notifyStatus, notifyVoice>>

handlePresenceUpdates(data) ==
    /\ started
    /\ Commit(PresenceResult(Cur, autoTrackAll, trackedUserIds, data))
    /\ ev' = [op |-> "presence", data |-> data]
    /\ UNCHANGED <<trackedUserIds, autoTrackAll, started, stats>>

handleVoiceStateUpdate(data) ==
    /\ started
    /\ Commit(VoiceResult(Cur, autoTrackAll, trackedUserIds, data))
    /\ ev' = [op |-> "voice", data |-> data]
    /\ UNCHANGED <<trackedUserIds, autoTrackAll, started, stats>>

handleMessageCreate(message) ==
    /\ started
    /\ Commit(MessageResult(Cur, autoTrackAll, trackedUserIds, message))
    /\ ev' = [op |-> "message", message |-> message]
    /\ UNCHANGED <<trackedUserIds, autoTrackAll, started, stats>>

\* trackUser(userId)
trackUser(userId) ==
    /\ trackedUserIds' = trackedUserIds \cup {userId}
    /\ ev' = [op |-> "trackUser", userId |-> userId]
    /\ UNCHANGED notify
    /\ UNCHANGED <<activityLogs, processedMessageIds, lastKnownStatus, autoTrackAll,
                   store, started, now, appended, pushes, stats>>

\* untrackUser(userId)
untrackUser(userId) ==
    /\ trackedUserIds' = trackedUserIds \ {userId}
    /\ ev' = [op |-> "untrackUser", userId |-> userId]
    /\ UNCHANGED notify
    /\ UNCHANGED <<activityLogs, processedMessageIds, lastKnownStatus, autoTrackAll,
                   store, started, now, appended, pushes, stats>>

\* the user switches the autoTrackAll setting
SetAutoTrackAll(b) ==
    /\ autoTrackAll # b
    /\ autoTrackAll' = b
    /\ ev' = [op |-> "setAutoTrackAll", value |-> b]
    /\ UNCHANGED notify
    /\ UNCHANGED <<activityLogs, trackedUserIds, processedMessageIds, lastKnownStatus,
                   store, started, now, appended, pushes, stats>>

\* the user switches a notification setting
SetNotify(key, b) ==
    /\ notifyStatus' = (IF key = "notifyStatus" THEN b ELSE notifyStatus)
    /\ notifyVoice' = (IF key = "notifyVoice" THEN b ELSE notifyVoice)
    /\ <<notifyStatus', notifyVoice'>> # <<notifyStatus, notifyVoice>>
    /\ ev' = [op |-> "setNotify", key |-> key, value |-> b]
    /\ UNCHANGED <<activityLogs, trackedUserIds, processedMessageIds, lastKnownStatus,
                   autoTrackAll, store, started, notifications, now, appended, pushes,
                   stats>>

\* mutant: clearing the log forgets the statuses and the message ids seen
clearLogsAndSeen ==
    /\ activityLogs' = <<>>
    /\ lastKnownStatus' = [u \in Users |-> Undefined]
    /\ processedMessageIds' = <<>>
    /\ appended' = <<>>
    /\ pushes' = 0
    /\ ev' = [op |-> "clearLogs"]
    /\ UNCHANGED notify
    /\ UNCHANGED <<trackedUserIds, autoTrackAll, store, started, now, stats>>

\* clearLogs()
clearLogs ==
    /\ activityLogs' = <<>>
    /\ appended' = <<>>
    /\ pushes' = 0
    /\ ev' = [op |-> "clearLogs"]
    /\ UNCHANGED notify
    /\ UNCHANGED <<trackedUserIds, processedMessageIds, lastKnownStatus, autoTrackAll,
                   store, started, now, stats>>

\* the clock moves between two dispatches
Tick ==
    /\ now + 1 \in Instants
    /\ now' = now + 1
    /\ ev' = [op |-> "tick"]
    /\ UNCHANGED notify
    /\ UNCHANGED <<activityLogs, trackedUserIds, processedMessageIds, lastKnownStatus,
                   autoTrackAll, store, started, appended, pushes, stats>>

\* the dashboard renders: const stats = calculateStats(statsUserId)
CalculateStats(userId) ==
    /\ stats' = calculateStats(activityLogs, userId)
    /\ ev' = [op |-> "calculateStats", userId |-> userId]
    /\ UNCHANGED notify
    /\ UNCHANGED <<activityLogs, trackedUserIds, processedMessageIds, lastKnownStatus,
                   autoTrackAll, store, started, now, appended, pushes>>

\* mutant: the button calls clearLogs() and leaves the tracked set
ClearAllLogsOnly ==
    /\ activityLogs' = <<>>
    /\ appended' = <<>>
    /\ pushes' = 0
    /\ ev' = [op |-> "clearAll"]
    /\ UNCHANGED notify
    /\ UNCHANGED <<trackedUserIds, processedMessageIds, lastKnownStatus, autoTrackAll,
                   store, started, now, stats>>

\* the Clear All button of the dashboard: activityLogs.length = 0;
\* trackedUserIds.clear(); nothing is saved
ClearAll ==
    /\ activityLogs' = <<>>
    /\ trackedUserIds' = {}
    /\ appended' = <<>>
    /\ pushes' = 0
    /\ ev' = [op |-> "clearAll"]
    /\ UNCHANGED notify
    /\ UNCHANGED <<processedMessageIds, lastKnownStatus, autoTrackAll, store, started,
                   now, stats>>

\* the Start / Stop Tracking User item of the user context menu
ToggleTracking(userId) ==
    LET isTracked == userId \in trackedUserIds
        tracked == IF isTracked THEN trackedUserIds \ {userId}
                   ELSE trackedUserIds \cup {userId}
    IN  /\ trackedUserIds' = tracked
        /\ store' = Saved(tracked, activityLogs)
        /\ ev' = [op |-> "toggle", userId |-> userId]
        /\ UNCHANGED notify
        /\ UNCHANGED <<activityLogs, processedMessageIds, lastKnownStatus, autoTrackAll,
                       started, now, appended, pushes, stats>>

\* stop(): saveToSettings() and the handlers are unsubscribed
stop ==
    /\ started
    /\ started' = FALSE
    /\ store' = Saved(trackedUserIds, activityLogs)
    /\ ev' = [op |-> "stop"]
    /\ UNCHANGED notify
    /\ UNCHANGED <<activityLogs, trackedUserIds, processedMessageIds, lastKnownStatus,
                   autoTrackAll, now, appended, pushes, stats>>

\* start() of a plugin that was stopped: loadFromSettings() over the module
\* state the session still holds, and the handlers are subscribed
start ==
    LET loaded == loadFromSettings(trackedUserIds, activityLogs, store)
    IN  /\ ~started
        /\ started' = TRUE
        /\ trackedUserIds' = loaded.tracked
        /\ activityLogs' = loaded.logs
        /\ appended' = Last(MAX_LOGS, loaded.logs)
        /\ pushes' = Len(loaded.logs)
        /\ ev' = [op |-> "start"]
        /\ UNCHANGED notify
        /\ UNCHANGED <<processedMessageIds, lastKnownStatus, autoTrackAll, store, now,
                       stats>>

\* the client is reloaded with the plugin enabled: the module is evaluated
\* again, which initialises its state, and start() runs; the settings persist
Reload ==
    LET loaded == loadFromSettings({}, <<>>, store)
    IN  /\ started
        /\ trackedUserIds' = loaded.tracked
        /\ activityLogs' = loaded.logs
        /\ processedMessageIds' = <<>>
        /\ lastKnownStatus' = [u \in Users |-> Undefined]
        /\ appended' = Last(MAX_LOGS, loaded.logs)
        /\ pushes' = Len(loaded.logs)
        /\ stats' = NoStats
        /\ ev' = [op |-> "reload"]
        /\ UNCHANGED notify
        /\ UNCHANGED <<autoTrackAll, store, started, now>>

\* a settings string is replaced outside the plugin by a text that is no JSON
CorruptStore(key) ==
    /\ store[key] # CorruptText
    /\ store' = [store EXCEPT ![key] = CorruptText]
    /\ ev' = [op |-> "corrupt", key |-> key]
    /\ UNCHANGED notify
    /\ UNCHANGED <<activityLogs, trackedUserIds, processedMessageIds, lastKnownStatus,
                   autoTrackAll, started, now, appended, pushes, stats>>

-----------------------------------------------------------------------------
(* Specifications *)

\* The whole plugin, with the traffic of one subject and a few payloads of each
\* kind: a presence update with or without an id, a user and activities, a join,
\* a message with or without an id.
SomePresenceUpdates ==
    { u \in PresenceUpdates :
        /\ u.dt = 0
        /\ u.userId # "u2"
        /\ u.userId = "u1" => (u.resolved /\ u.status = "online" /\ u.clientStatus # Undefined) }

SomeVoiceStates ==
    { v \in VoiceStates :
        v.userId = "u1" /\ v.resolved /\ v.oldChannelId = Undefined /\ v.channelId = "c1" }

SomeMessages == { m \in Messages : m.authorId = "u1" /\ m.id \in {"m1", Undefined} }

Next ==
    \/ \E data \in PresenceData(SomePresenceUpdates, MaxBatch) : handlePresenceUpdates(data)
    \/ \E data \in VoiceData(SomeVoiceStates, MaxBatch) : handleVoiceStateUpdate(data)
    \/ \E message \in SomeMessages : handleMessageCreate(message)
    \/ \E userId \in Users : trackUser(userId)
    \/ \E userId \in Users : untrackUser(userId)
    \/ \E b \in BOOLEAN : SetAutoTrackAll(b)
    \/ clearLogs

Spec == Init /\ [][Next]_vars

\* Presence traffic alone: every payload for u1, one payload for u2.
FocusPresenceUpdates ==
    { u \in PresenceUpdates :
        u.userId = "u2" => (u.resolved /\ u.status = "online" /\ u.clientStatus # Undefined
                              /\ u.activities = <<>>) }

NextPresence ==
    \/ \E data \in PresenceData(FocusPresenceUpdates, 1) : handlePresenceUpdates(data)
    \/ \E userId \in Users : trackUser(userId)
    \/ \E userId \in Users : untrackUser(userId)
    \/ clearLogs

SpecPresence == Init /\ [][NextPresence]_vars

\* Voice traffic alone: every pair of channels for u1.
FocusVoiceStates == { v \in VoiceStates : v.userId # "u2" }

NextVoice ==
    \/ \E data \in VoiceData(FocusVoiceStates, 1) : handleVoiceStateUpdate(data)
    \/ trackUser("u1")
    \/ untrackUser("u1")
    \/ \E b \in BOOLEAN : SetAutoTrackAll(b)
    \/ clearLogs
    \/ Tick

SpecVoice == Init /\ [][NextVoice]_vars

\* Message traffic alone: enough ids to overflow the processed set from u1, one
\* of them from u2 as well.
FocusMessages == { m \in Messages : m.authorId = "u2" => m.id = "m1" }

NextMessage ==
    \/ \E message \in FocusMessages : handleMessageCreate(message)
    \/ \E userId \in Users : trackUser(userId)
    \/ \E userId \in Users : untrackUser(userId)
    \/ clearLogs
    \/ Tick

SpecMessage == Init /\ [][NextMessage]_vars

\* The life cycle of the plugin and its settings: a little traffic of u1, the
\* context menu, the clear operations, stop and start, a reload of the client,
\* and settings made unreadable.
PersistPresenceUpdates ==
    { u \in SomePresenceUpdates : u.userId = "u1" /\ u.activities # <<>> }

\* a direct message of u1: no guild_id
PersistMessages ==
    { [m EXCEPT !.guild_id = Undefined, !.guildName = Undefined] :
        m \in { n \in SomeMessages : n.id = Undefined } }

NextPersist ==
    \/ \E data \in PresenceData(PersistPresenceUpdates, 1) : handlePresenceUpdates(data)
    \/ \E data \in VoiceData(SomeVoiceStates, 1) : handleVoiceStateUpdate(data)
    \/ \E message \in PersistMessages : handleMessageCreate(message)
    \/ ToggleTracking("u1")
    \/ ClearAll
    \/ stop
    \/ start
    \/ Reload
    \/ \E key \in {"trackedUsers", "activityLogs"} : CorruptStore(key)

SpecPersist == Init /\ [][NextPersist]_vars

\* The registry: the two ways of tracking and untracking a user, the
\* autoTrackAll setting, and events of each kind for u1: a presence update with
\* activities, a join, a message with or without an id.
TrackingPresenceUpdates == { u \in PersistPresenceUpdates : u.clientStatus # Undefined }

TrackingMessages == SomeMessages

NextTracking ==
    \/ \E data \in PresenceData(TrackingPresenceUpdates, 1) : handlePresenceUpdates(data)
    \/ \E data \in VoiceData(SomeVoiceStates, 1) : handleVoiceStateUpdate(data)
    \/ \E message \in TrackingMessages : handleMessageCreate(message)
    \/ \E userId \in Users : trackUser(userId)
    \/ \E userId \in Users : untrackUser(userId)
    \/ \E userId \in Users : ToggleTracking(userId)
    \/ \E b \in BOOLEAN : SetAutoTrackAll(b)

SpecTracking == Init /\ [][NextTracking]_vars

\* Notifications: the status changes and the voice states of a tracked u1 under
\* every setting of the two notification switches.
NotifyPresenceUpdates ==
    { u \in PresenceUpdates :
        u.userId = "u1" /\ u.resolved /\ u.status # Undefined
          /\ u.clientStatus # Undefined /\ u.activities = <<>> }

NotifyVoiceStates == { v \in VoiceStates : v.userId = "u1" /\ v.resolved }

NextNotify ==
    \/ \E data \in PresenceData(NotifyPresenceUpdates, 1) : handlePresenceUpdates(data)
    \/ \E data \in VoiceData(NotifyVoiceStates, 1) : handleVoiceStateUpdate(data)
    \/ trackUser("u1")
    \/ untrackUser("u1")
    \/ \E key \in {"notifyStatus", "notifyVoice"}, b \in BOOLEAN : SetNotify(key, b)

SpecNotify == Init /\ [][NextNotify]_vars

\* Name resolution: a join of c1, a leave of c2 and a message of u1 whose
\* channel and guild the stores know or do not know.
ResolveVoiceStates ==
    { [v EXCEPT !.channelName = c, !.guildName = g] :
        v \in { w \in VoiceStates :
                  /\ w.userId = "u1" /\ w.resolved
                  /\ <<w.oldChannelId, w.channelId>> \in
                        {<<Undefined, "c1">>, <<"c2", Undefined>>} },
        c \in {"general", Undefined}, g \in {"home", Undefined} }

ResolveMessages ==
    { [m EXCEPT !.channelName = c, !.guildName = g] :
        m \in { n \in SomeMessages : n.id = Undefined },
        c \in {"general", Undefined}, g \in {"home", Undefined} }

\* a join of u1 when UserStore.getUser does not find u1
UnknownUserVoiceStates == { [v EXCEPT !.resolved = FALSE] : v \in SomeVoiceStates }

\* a status and an activity of u1 when UserStore.getUser does not find u1
UnknownUserPresenceUpdates ==
    { [u EXCEPT !.resolved = FALSE] : u \in TrackingPresenceUpdates }

NextResolve ==
    \/ \E data \in PresenceData(UnknownUserPresenceUpdates, 1) : handlePresenceUpdates(data)
    \/ \E data \in VoiceData(ResolveVoiceStates \cup UnknownUserVoiceStates, 1) :
          handleVoiceStateUpdate(data)
    \/ \E message \in ResolveMessages : handleMessageCreate(message)
    \/ trackUser("u1")
    \/ untrackUser("u1")
    \/ clearLogs

SpecResolve == Init /\ [][NextResolve]_vars

-----------------------------------------------------------------------------
(* The statistics of the dashboard over a log it is given *)

\* the longest log calculateStats is given
MaxStatLogs == 3

\* timestamps of the entries: the epoch, half a minute, ten minutes, three hours
StatTimes == {0, 30 * 1000, 10 * 60 * 1000, 3 * 60 * 60 * 1000}

StatVoice(userId, oldChannelId, channelId, t) ==
    VoiceLog([userId |-> userId, resolved |-> TRUE, oldChannelId |-> oldChannelId,
              channelId |-> channelId, guildId |-> "g1", channelName |-> "general",
              guildName |-> "home"], t)

\* the entries a log can hold at t: a join, a leave, a move and a message of u1,
\* a join of u2
StatEntries(t) ==
    { StatVoice("u1", Undefined, "c1", t), StatVoice("u1", "c1", Undefined, t),
      StatVoice("u1", "c1", "c2", t),
      MessageLog(CHOOSE m \in Messages : m.authorId = "u1" /\ m.id = "m1", t),
      StatVoice("u2", Undefined, "c1", t) }

\* logs in chronological order, as Date.now() stamps them
StatLogs ==
    { q \in SeqsUpTo(UNION { StatEntries(t) : t \in StatTimes }, MaxStatLogs) :
        \A i \in 1..(Len(q) - 1) : q[i].timestamp <= q[i + 1].timestamp }

InitStats ==
    /\ activityLogs \in StatLogs
    /\ trackedUserIds = {}
    /\ processedMessageIds = <<>>
    /\ lastKnownStatus = [u \in Users |-> Undefined]
    /\ autoTrackAll = FALSE
    /\ store = [trackedUsers |-> EmptyText, activityLogs |-> EmptyText]
    /\ started = TRUE
    /\ notifyStatus = TRUE
    /\ notifyVoice = FALSE
    /\ notifications = <<>>
    /\ now = 1
    /\ appended = <<>>
    /\ pushes = 0
    /\ ev = [op |-> "init"]
    /\ stats = NoStats

NextStats == \E userId \in Users \cup {Null} : CalculateStats(userId)

SpecStats == InitStats /\ [][NextStats]_vars

\* Records without a subject id among records of u1: a status of u1, a join of
\* u1, a message of u1, and each of them with the subject id missing.
MalformedPresenceUpdates ==
    { u \in PresenceUpdates :
        /\ u.activities = <<>>
        /\ u.userId # "u2"
        /\ u.userId = "u1"
             => u.resolved /\ u.status \in {"online", "idle"} /\ u.clientStatus # Undefined }

MalformedVoiceStates ==
    SomeVoiceStates \cup { v \in VoiceStates : v.userId = Undefined }

MalformedMessages ==
    { m \in Messages : m.authorId # "u2" /\ m.id = Undefined }

NextMalformed ==
    \/ \E data \in PresenceData(MalformedPresenceUpdates, MaxBatch) :
          handlePresenceUpdates(data)
    \/ \E data \in VoiceData(MalformedVoiceStates, MaxBatch) : handleVoiceStateUpdate(data)
    \/ \E message \in MalformedMessages : handleMessageCreate(message)
    \/ \E b \in BOOLEAN : SetAutoTrackAll(b)

SpecMalformed == Init /\ [][NextMalformed]_vars

\* The registry and the clear operations among the events they must not
\* disturb: the two statuses of u1 and a message of u1 with an id.
ClearPresenceUpdates ==
    { u \in MalformedPresenceUpdates : u.userId = "u1" }

ClearMessages == { m \in SomeMessages : m.id = "m1" }

NextClear ==
    \/ \E data \in PresenceData(ClearPresenceUpdates, 1) : handlePresenceUpdates(data)
    \/ \E message \in ClearMessages : handleMessageCreate(message)
    \/ trackUser("u1")
    \/ untrackUser("u1")
    \/ clearLogs
    \/ ClearAll

SpecClear == Init /\ [][NextClear]_vars

-----------------------------------------------------------------------------
(* Properties *)

\* the entries pushed by the step, oldest first
Pushed == Last(pushes' - pushes, appended')

\* the step is a PRESENCE_UPDATES dispatch of one update, TheUpdate
IsPresenceStep ==
    ev'.op = "presence" /\ "updates" \in DOMAIN ev'.data /\ Len(ev'.data.updates) = 1

TheUpdate == ev'.data.updates[1]

\* the step is a VOICE_STATE_UPDATES dispatch of one voice state, TheVoiceState
IsVoiceStep ==
    ev'.op = "voice" /\ "voiceStates" \in DOMAIN ev'.data /\ Len(ev'.data.voiceStates) = 1

TheVoiceState == ev'.data.voiceStates[1]

\* the step is a MESSAGE_CREATE dispatch of TheMessage
IsMessageStep == ev'.op = "message"

TheMessage == ev'.message

\* the subject's events are admitted in the current state
Tracked(userId) == autoTrackAll \/ userId \in trackedUserIds

\* the ids in the processed set
ProcessedIds == { processedMessageIds[i] : i \in 1..Len(processedMessageIds) }

(* C1: whenever a handler has returned, the log holds at most MAX_LOGS
   entries. *)
C1_LogBounded == Len(activityLogs) <= MAX_LOGS

(* C2: once more than MAX_LOGS entries were appended, the log is exactly the
   last MAX_LOGS appended entries, in the order they were appended. *)
C2_LastEntriesRetained == pushes > MAX_LOGS => activityLogs = appended

(* C3: a presence update that carries, for a tracked subject, the status that
   is the subject's last known status appends no Status entry and leaves
   lastKnownStatus unchanged. *)
C3_StatusSuppressed ==
    [][( /\ IsPresenceStep
         /\ TheUpdate.userId \in Users
         /\ Tracked(TheUpdate.userId)
         /\ TheUpdate.status \in Statuses
         /\ TheUpdate.status = lastKnownStatus[TheUpdate.userId] )
       => /\ lastKnownStatus' = lastKnownStatus
          /\ \A i \in 1..Len(Pushed) : Pushed[i].type # "status"]_vars

\* u1 is tracked and known to be online, the log was cleared, and the update
\* that carried online again pushed nothing
C3_Witness ==
    /\ ev.op = "presence"
    /\ "updates" \in DOMAIN ev.data
    /\ Len(ev.data.updates) = 1
    /\ ev.data.updates[1].userId = "u1"
    /\ ev.data.updates[1].resolved
    /\ ev.data.updates[1].status = "online"
    /\ ev.data.updates[1].clientStatus # Undefined
    /\ "u1" \in trackedUserIds
    /\ lastKnownStatus["u1"] = "online"
    /\ pushes = 0

(* C4: a presence update that carries, for a tracked subject with a last known
   status s, a status v other than s appends exactly one Status entry, of
   value v, and sets the subject's last known status to v. *)
C4_StatusChangeLogged ==
    [][( /\ IsPresenceStep
         /\ TheUpdate.userId \in Users
         /\ Tracked(TheUpdate.userId)
         /\ lastKnownStatus[TheUpdate.userId] \in Statuses
         /\ TheUpdate.status \in Statuses
         /\ TheUpdate.status # lastKnownStatus[TheUpdate.userId] )
       => /\ lastKnownStatus'[TheUpdate.userId] = TheUpdate.status
          /\ Cardinality({ i \in 1..Len(Pushed) : Pushed[i].type = "status" }) = 1
          /\ \A i \in 1..Len(Pushed) :
                Pushed[i].type = "status"
                  => /\ Pushed[i].userId = TheUpdate.userId
                     /\ Pushed[i].status.status = TheUpdate.status]_vars

(* C5: the voice state of an admitted subject is logged as join when it has no
   previous channel and a current one, as leave when it has a previous channel
   and no current one, and as move when it has both and they differ. *)
C5_VoiceClassified ==
    [][( /\ IsVoiceStep
         /\ TheVoiceState.userId \in Users
         /\ Tracked(TheVoiceState.userId)
         /\ TheVoiceState.resolved )
       => LET previous == TheVoiceState.oldChannelId
              current == TheVoiceState.channelId
              logged == Pushed[1].voiceChannel.action
          IN  /\ Len(Pushed) = 1
              /\ Pushed[1].type = "voice"
              /\ (previous = Undefined /\ current # Undefined => logged = "join")
              /\ (previous # Undefined /\ current = Undefined => logged = "leave")
              /\ (previous # Undefined /\ current # Undefined /\ previous # current
                    => logged = "move")]_vars

\* u1 joined c1 and then moved from c1 to c2: the log holds a join and a move
C5_Witness ==
    /\ ev.op = "voice"
    /\ "voiceStates" \in DOMAIN ev.data
    /\ Len(ev.data.voiceStates) = 1
    /\ ev.data.voiceStates[1].oldChannelId = "c1"
    /\ ev.data.voiceStates[1].channelId = "c2"
    /\ Len(activityLogs) = 2
    /\ activityLogs[1].type = "voice"
    /\ activityLogs[1].voiceChannel.action = "join"
    /\ activityLogs[2].type = "voice"
    /\ activityLogs[2].voiceChannel.action = "move"
    /\ activityLogs[2].voiceChannel.channelId = "c2"

(* C6: a message of a tracked author whose id is not in the processed set
   appends one Message entry and puts the id in the set; a message whose id is
   in the processed set changes neither the log nor the set. *)
C6_Deduplicated ==
    [][IsMessageStep
       => /\ ( /\ TheMessage.authorId \in Users
               /\ Tracked(TheMessage.authorId)
               /\ TheMessage.id \in MessageIds
               /\ TheMessage.id \notin ProcessedIds )
             => /\ Len(Pushed) = 1
                /\ Pushed[1].type = "message"
                /\ Pushed[1].userId = TheMessage.authorId
                /\ Pushed[1].message.content = TheMessage.content
                /\ TheMessage.id \in ProcessedIds'
          /\ TheMessage.id \in ProcessedIds
             => /\ activityLogs' = activityLogs
                /\ processedMessageIds' = processedMessageIds]_vars

\* m1 is in the processed set, the log was cleared, and the delivery of m1 from
\* the tracked u1 that followed pushed nothing
C6_Witness ==
    /\ ev.op = "message"
    /\ ev.message.id = "m1"
    /\ ev.message.authorId = "u1"
    /\ "u1" \in trackedUserIds
    /\ "m1" \in ProcessedIds
    /\ pushes = 0
    /\ activityLogs = <<>>

(* C7: the processed set never holds more than MAX_PROCESSED ids when
   handleMessageCreate has returned, and the insertion of a new id into a set
   of MAX_PROCESSED ids leaves exactly the KEEP_PROCESSED ids inserted last,
   in the order of their insertion. *)
C7_ProcessedBounded ==
    [][/\ Len(processedMessageIds') <= MAX_PROCESSED
       /\ ( /\ IsMessageStep
            /\ TheMessage.authorId \in Users
            /\ Tracked(TheMessage.authorId)
            /\ TheMessage.id \in MessageIds
            /\ TheMessage.id \notin ProcessedIds
            /\ Len(processedMessageIds) = MAX_PROCESSED )
          => processedMessageIds' =
               Last(KEEP_PROCESSED, Append(processedMessageIds, TheMessage.id))]_vars

\* the log holds the texts of two messages with ids, the later one that of the
\* last dispatch, and of their ids only the KEEP_PROCESSED last are in the set:
\* the earlier id was dropped by the clean-up
C7_Witness ==
    /\ ev.op = "message"
    /\ ev.message.id \in MessageIds
    /\ Len(processedMessageIds) = KEEP_PROCESSED
    /\ processedMessageIds[Len(processedMessageIds)] = ev.message.id
    /\ Len(activityLogs) >= 2
    /\ activityLogs[Len(activityLogs)].message.content = ev.message.content
    /\ \E id \in MessageIds \ ProcessedIds :
          activityLogs[Len(activityLogs) - 1].message.content = ContentOf(id)

\* the entries of the scope the statistics were last computed for
Scope ==
    SelectSeq(activityLogs, LAMBDA l : ev.userId = Null \/ l.userId = ev.userId)

\* the Voice entries of that scope
ScopeVoice == SelectSeq(Scope, LAMBDA l : l.type = "voice")

(* C8: for a scope whose voice entries are a Join at t followed by a Leave at
   t' >= t, totalVoiceMinutes is t' - t in minutes, for every t, 0 included. *)
C8_JoinLeaveMinutes ==
    ( /\ ev.op = "calculateStats"
      /\ Len(ScopeVoice) = 2
      /\ ScopeVoice[1].voiceChannel.action = "join"
      /\ ScopeVoice[2].voiceChannel.action = "leave" )
    => stats.totalVoiceMinutes =
         ((ScopeVoice[2].timestamp - ScopeVoice[1].timestamp) + 30 * 1000) \div (60 * 1000)

\* The open-marker discipline of the specification: open is <<>> when no join
\* is open and <<t>> when the join at t is.
RECURSIVE SessionMillis(_, _)
SessionMillis(open, voiceLogs) ==
    IF voiceLogs = <<>> THEN 0
    ELSE LET log == Head(voiceLogs)
             action == log.voiceChannel.action
         IN  IF action = "join" THEN SessionMillis(<<log.timestamp>>, Tail(voiceLogs))
             ELSE IF action = "leave" /\ open # <<>>
                  THEN (log.timestamp - open[1]) + SessionMillis(<<>>, Tail(voiceLogs))
                  ELSE SessionMillis(open, Tail(voiceLogs))

(* C9: totalVoiceMinutes is the sum under the open-marker discipline: a Join
   opens a session and replaces an unmatched earlier Join, a Leave closes the
   open session and adds its length, a Leave with no open Join and a Move add
   nothing and neither open nor close a session. *)
C9_OpenMarkerDiscipline ==
    ev.op = "calculateStats"
    => stats.totalVoiceMinutes = (SessionMillis(<<>>, ScopeVoice) + 30 * 1000) \div (60 * 1000)

(* C10: hourCounts[h] is the number of entries of the scope whose local hour
   is h, for every h in 0..23, and the busiest hour reported is the lowest
   hour among those of the greatest count. *)
C10_Histogram ==
    ev.op = "calculateStats"
    => LET count == [h \in 0..23 |->
                       Cardinality({ i \in 1..Len(Scope) : HourOf(Scope[i].timestamp) = h })]
           busiest == stats.mostActiveHour.hour
       IN  /\ stats.hourCounts = count
           /\ busiest \in 0..23
           /\ stats.mostActiveHour.events = count[busiest]
           /\ \A h \in 0..23 : count[h] <= count[busiest]
           /\ \A h \in 0..(busiest - 1) : count[h] < count[busiest]

\* hours 0 and 3 share the greatest count of the scope and hour 0 is reported
C10_Witness ==
    /\ ev.op = "calculateStats"
    /\ stats.hourCounts[0] >= 1
    /\ stats.hourCounts[3] = stats.hourCounts[0]
    /\ stats.mostActiveHour = [hour |-> 0, events |-> stats.hourCounts[0]]

\* the string properties of the payload of an entry of this type
PayloadFields(type) ==
    CASE type = "status" -> {"status", "clientStatus"}
      [] type = "voice" -> {"channelId", "channelName", "action", "guildId", "guildName"}
      [] type = "message" -> {"content", "channelId", "channelName", "guildId", "guildName"}
      [] OTHER -> {}

\* two entries read the same: every property yields the same value, an absent
\* property yielding undefined as one that holds undefined does
SameEntry(a, b) ==
    /\ \A f \in {"userId", "username", "type"} : Get(a, f) = Get(b, f)
    /\ a.timestamp = b.timestamp
    /\ IF a.type = "activity" THEN a.activities = b.activities
       ELSE \A f \in PayloadFields(a.type) :
               Get(a[PayloadKey(a)], f) = Get(b[PayloadKey(a)], f)

\* two logs hold the same entries in the same order
SameLog(a, b) == Len(a) = Len(b) /\ \A i \in 1..Len(a) : SameEntry(a[i], b[i])

(* C11: saving the log and the tracked set with saveToSettings, or exporting the
   log with exportLogs, and loading the text with loadFromSettings into a fresh
   module gives back the same entries, in the same order, with the same field
   values, and the same tracked set. *)
C11_RoundTrip ==
    LET saved == Saved(trackedUserIds, activityLogs)
        exported == [saved EXCEPT !.activityLogs = exportLogs(activityLogs)]
    IN  /\ loadFromSettings({}, <<>>, saved).tracked = trackedUserIds
        /\ SameLog(loadFromSettings({}, <<>>, saved).logs, activityLogs)
        /\ SameLog(loadFromSettings({}, <<>>, exported).logs, activityLogs)

\* the client was reloaded after a stop that saved a log of two entries, the
\* later one a direct message with no guild id, and a tracked u1: the reload
\* brought back both entries and the tracked set
C11_Witness ==
    /\ ev.op = "reload"
    /\ trackedUserIds = {"u1"}
    /\ Len(activityLogs) = 2
    /\ activityLogs[1].type # "message"
    /\ activityLogs[2].type = "message"
    /\ "guildId" \notin DOMAIN activityLogs[2].message
    /\ activityLogs[2].message.guildName = "DM"
    /\ store = Saved(trackedUserIds, activityLogs)

\* the subjects of the events the step dispatched
Subjects ==
    CASE ev'.op = "presence" /\ "updates" \in DOMAIN ev'.data
           -> { ev'.data.updates[i].userId : i \in 1..Len(ev'.data.updates) }
      [] ev'.op = "voice" /\ "voiceStates" \in DOMAIN ev'.data
           -> { ev'.data.voiceStates[i].userId : i \in 1..Len(ev'.data.voiceStates) }
      [] ev'.op = "message" -> { ev'.message.authorId }
      [] OTHER -> {}

(* C12: with autoTrackAll off, a presence, voice or message dispatch whose
   events are all for subjects outside the tracked set appends nothing and
   changes no state: the log, lastKnownStatus, the processed ids and the saved
   settings are what they were. *)
C12_AdmissionGate ==
    [][( /\ Subjects # {}
         /\ Subjects \subseteq Users
         /\ \A userId \in Subjects : ~Tracked(userId) )
       => /\ Pushed = <<>>
          /\ UNCHANGED <<activityLogs, lastKnownStatus, processedMessageIds, store>>]_vars

\* the message m1 of u1 was delivered while u1 was not tracked and autoTrackAll
\* was off: m1 is not among the processed ids
C12_Witness ==
    /\ ev.op = "message"
    /\ ev.message.authorId = "u1"
    /\ ev.message.id = "m1"
    /\ ~Tracked("u1")
    /\ "m1" \notin ProcessedIds
    /\ lastKnownStatus["u1"] = Undefined

(* C13: when the client is reloaded and one of the two saved settings is a
   text JSON.parse rejects, loading raises no error and the plugin starts with
   an empty log and an empty tracked set. *)
C13_CorruptStartsEmpty ==
    ( /\ ev.op = "reload"
      /\ (store.trackedUsers = CorruptText \/ store.activityLogs = CorruptText) )
    => /\ activityLogs = <<>>
       /\ trackedUserIds = {}

(* C14: Clear All empties the log and the tracked set in one step: the state
   that follows the click has neither an entry nor a tracked user, and the step
   ingests nothing, the handlers running only before or after it. *)
C14_ClearAllAtOnce ==
    [][ev'.op = "clearAll"
       => /\ activityLogs' = <<>>
          /\ trackedUserIds' = {}
          /\ Pushed = <<>>
          /\ UNCHANGED <<lastKnownStatus, processedMessageIds, store>>]_vars

\* Clear All was clicked when the settings last saved held a tracked u1 and a
\* log of two entries: both are gone
C14_Witness ==
    /\ ev.op = "clearAll"
    /\ activityLogs = <<>>
    /\ trackedUserIds = {}
    /\ Parses(store.trackedUsers)
    /\ JSONParse(store.trackedUsers) = <<"u1">>
    /\ Parses(store.activityLogs)
    /\ Len(JSONParse(store.activityLogs)) = 2

\* the events of the step that the code would log if their subject is admitted:
\* a presence update of a known user with activities, a voice state of a known
\* user, a message whose id is not among the processed ids
Loggable ==
    CASE ev'.op = "presence" /\ "updates" \in DOMAIN ev'.data
           -> { i \in 1..Len(ev'.data.updates) :
                  ev'.data.updates[i].resolved /\ ev'.data.updates[i].activities # <<>> }
      [] ev'.op = "voice" /\ "voiceStates" \in DOMAIN ev'.data
           -> { i \in 1..Len(ev'.data.voiceStates) : ev'.data.voiceStates[i].resolved }
      [] ev'.op = "message"
           -> IF ev'.message.authorId \in Users /\ ev'.message.id \notin ProcessedIds
              THEN {1} ELSE {}
      [] OTHER -> {}

\* the subject of the i-th event of the step
SubjectOf(i) ==
    CASE ev'.op = "presence" -> ev'.data.updates[i].userId
      [] ev'.op = "voice" -> ev'.data.voiceStates[i].userId
      [] ev'.op = "message" -> ev'.message.authorId

(* C15: an event is admitted exactly when autoTrackAll is on or its subject is
   in the tracked set at the moment it is handled: an event the code logs when
   admitted appends an entry of its subject in that case and nothing otherwise.
   trackUser and the context-menu item put a user in the tracked set,
   untrackUser and the item on a tracked user take it out. *)
C15_TrackingDecision ==
    [][/\ \A i \in Loggable :
            (\E k \in 1..Len(Pushed) : Pushed[k].userId = SubjectOf(i)) <=> Tracked(SubjectOf(i))
       /\ (ev'.op = "trackUser" => ev'.userId \in trackedUserIds')
       /\ (ev'.op = "untrackUser" => ev'.userId \notin trackedUserIds')
       /\ (ev'.op = "toggle"
             => (ev'.userId \in trackedUserIds' <=> ev'.userId \notin trackedUserIds))]_vars

\* u1 was tracked and logged one entry, then untracked with autoTrackAll off:
\* the voice state of u1 that followed was discarded
C15_Witness ==
    /\ ev.op = "voice"
    /\ "voiceStates" \in DOMAIN ev.data
    /\ Len(ev.data.voiceStates) = 1
    /\ ev.data.voiceStates[1].userId = "u1"
    /\ ~Tracked("u1")
    /\ pushes = 1
    /\ Len(activityLogs) = 1
    /\ activityLogs[1].userId = "u1"
    /\ activityLogs[1].type = "message"

\* the Status entries the step pushed
PushedStatus == SelectSeq(Pushed, LAMBDA l : l.type = "status")

(* C16: for a tracked subject with no last known status, a presence update
   that carries a status appends one Status entry of that status and records
   it as the last known status when the update carries a clientStatus, and
   appends no Status entry and leaves the last known status undefined when it
   does not. *)
C16_FirstStatus ==
    [][( /\ IsPresenceStep
         /\ TheUpdate.userId \in Users
         /\ Tracked(TheUpdate.userId)
         /\ lastKnownStatus[TheUpdate.userId] = Undefined
         /\ TheUpdate.status \in Statuses )
       => IF TheUpdate.clientStatus # Undefined
          THEN /\ Len(PushedStatus) = 1
               /\ PushedStatus[1].userId = TheUpdate.userId
               /\ PushedStatus[1].status.status = TheUpdate.status
               /\ lastKnownStatus'[TheUpdate.userId] = TheUpdate.status
          ELSE /\ PushedStatus = <<>>
               /\ lastKnownStatus'[TheUpdate.userId] = Undefined]_vars

\* the first update of the tracked u1 carried online and no clientStatus: the
\* log is empty and u1 has no last known status
C16_Witness ==
    /\ ev.op = "presence"
    /\ "updates" \in DOMAIN ev.data
    /\ Len(ev.data.updates) = 1
    /\ ev.data.updates[1].userId = "u1"
    /\ ev.data.updates[1].status = "online"
    /\ ev.data.updates[1].clientStatus = Undefined
    /\ "u1" \in trackedUserIds
    /\ lastKnownStatus["u1"] = Undefined
    /\ activityLogs = <<>>
    /\ pushes = 0

(* C17: a Voice entry whose action is move is pushed only for a voice state
   whose previous and current channel ids are both present and differ. *)
C17_MoveOnlyBetweenChannels ==
    [][( /\ IsVoiceStep
         /\ \E k \in 1..Len(Pushed) :
               Pushed[k].type = "voice" /\ Pushed[k].voiceChannel.action = "move" )
       => /\ TheVoiceState.oldChannelId # Undefined
          /\ TheVoiceState.channelId # Undefined
          /\ TheVoiceState.oldChannelId # TheVoiceState.channelId]_vars

\* the Activity entries the step pushed
PushedActivity == SelectSeq(Pushed, LAMBDA l : l.type = "activity")

(* C18: a presence update of a tracked, known user with a non-empty activity
   list appends exactly one Activity entry, holding that list, whatever the
   list last logged for the user. *)
C18_ActivitiesNotSuppressed ==
    [][( /\ IsPresenceStep
         /\ TheUpdate.userId \in Users
         /\ Tracked(TheUpdate.userId)
         /\ TheUpdate.resolved
         /\ TheUpdate.activities # <<>> )
       => /\ Len(PushedActivity) = 1
          /\ PushedActivity[1].userId = TheUpdate.userId
          /\ PushedActivity[1].activities = TheUpdate.activities]_vars

\* the last two entries of the log are Activity entries of u1 with the same
\* list, the later one pushed by the last update
C18_Witness ==
    /\ ev.op = "presence"
    /\ "updates" \in DOMAIN ev.data
    /\ Len(ev.data.updates) = 1
    /\ ev.data.updates[1].userId = "u1"
    /\ ev.data.updates[1].status = Undefined
    /\ Len(activityLogs) >= 2
    /\ LET last == activityLogs[Len(activityLogs)]
           before == activityLogs[Len(activityLogs) - 1]
       IN  /\ last.type = "activity" /\ before.type = "activity"
           /\ last.userId = "u1" /\ before.userId = "u1"
           /\ last.activities = ev.data.updates[1].activities
           /\ before.activities = last.activities

(* C19: one presence update pushes at most two entries; when it pushes two
   they are a Status entry followed by an Activity entry, and the two carry the
   same timestamp. *)
C19_StatusThenActivity ==
    [][IsPresenceStep
       => /\ Len(Pushed) <= 2
          /\ Len(Pushed) = 2
             => /\ Pushed[1].type = "status"
                /\ Pushed[2].type = "activity"
                /\ Pushed[1].timestamp = Pushed[2].timestamp]_vars

\* the entries a handler pushed in the step; no other step creates an entry
NewEntries == IF ev'.op \in {"presence", "voice", "message"} THEN Pushed ELSE <<>>

(* C20: every step leaves the log empty, or leaves what it held, less some of
   its oldest entries, followed by the entries the step created: no entry is
   modified, and none that was removed comes back. *)
C20_AppendOnly ==
    [][\/ activityLogs' = <<>>
       \/ \E k \in 0..Len(activityLogs) :
             SameLog(activityLogs',
                     SubSeq(activityLogs, k + 1, Len(activityLogs)) \o NewEntries)]_vars

\* the notifications of this kind the step showed
Shown(about) == SelectSeq(notifications', LAMBDA n : n.about = about)

(* C21: a step that appends a Status entry shows a status notification when
   notifyStatus is on and none when it is off; a step that appends a Voice
   entry shows a voice notification when notifyVoice is on and none when it is
   off. *)
C21_NotificationDispatch ==
    [][/\ (IsPresenceStep /\ PushedStatus # <<>>)
            => (Shown("status") # <<>> <=> notifyStatus)
       /\ (IsVoiceStep /\ Pushed # <<>>)
            => (Shown("voice") # <<>> <=> notifyVoice)]_vars

\* the label the specification gives a channel or a guild without a name
FallbackLabel(id) ==
    CASE id = "c1" -> "Channel ID: c1"
      [] id = "c2" -> "Channel ID: c2"
      [] id = "g1" -> "Server ID: g1"

(* C22: a voice state or a message of an admitted subject whose channel or
   guild has no name in the stores is still logged, once, and the name it is
   logged with is the label made of the raw id: "Channel ID: <id>",
   "Server ID: <id>". *)
C22_FallbackLabels ==
    [][/\ ( /\ IsVoiceStep
            /\ Tracked(TheVoiceState.userId)
            /\ TheVoiceState.resolved )
          => LET id == IF TheVoiceState.channelId # Undefined
                       THEN TheVoiceState.channelId ELSE TheVoiceState.oldChannelId
             IN  /\ Len(Pushed) = 1
                 /\ (TheVoiceState.channelName = Undefined /\ id # Undefined)
                      => Pushed[1].voiceChannel.channelName = FallbackLabel(id)
                 /\ TheVoiceState.guildName = Undefined
                      => Pushed[1].voiceChannel.guildName = FallbackLabel(TheVoiceState.guildId)
       /\ ( /\ IsMessageStep
            /\ TheMessage.authorId \in Users
            /\ Tracked(TheMessage.authorId)
            /\ TheMessage.id \notin ProcessedIds )
          => /\ Len(Pushed) = 1
             /\ TheMessage.channelName = Undefined
                  => Pushed[1].message.channelName = FallbackLabel(TheMessage.channel_id)
             /\ TheMessage.guildName = Undefined
                  => Pushed[1].message.guildName = FallbackLabel(TheMessage.guild_id)]_vars

\* the log holds a voice entry and a message entry that both carry the labels
\* of a channel and a guild the stores did not know
C22_Witness ==
    /\ ev.op = "message"
    /\ ev.message.channelName = Undefined
    /\ ev.message.guildName = Undefined
    /\ Len(activityLogs) = 2
    /\ activityLogs[1].type = "voice"
    /\ activityLogs[1].voiceChannel.channelName = "Channel ID: c2"
    /\ activityLogs[1].voiceChannel.guildName = "Server ID: g1"
    /\ activityLogs[2].type = "message"
    /\ activityLogs[2].message.channelName = "Channel ID: c1"
    /\ activityLogs[2].message.guildName = "Server ID: g1"

(* C23: a presence update or a voice state of an admitted subject that
   UserStore does not find is still logged: the voice state appends its Voice
   entry, the presence update with activities its Activity entry. *)
C23_UnknownUserStillLogged ==
    [][/\ ( /\ IsVoiceStep
            /\ TheVoiceState.userId \in Users
            /\ Tracked(TheVoiceState.userId)
            /\ ~TheVoiceState.resolved )
          => /\ Len(Pushed) = 1
             /\ Pushed[1].type = "voice"
             /\ Pushed[1].userId = TheVoiceState.userId
       /\ ( /\ IsPresenceStep
            /\ TheUpdate.userId \in Users
            /\ Tracked(TheUpdate.userId)
            /\ ~TheUpdate.resolved
            /\ TheUpdate.activities # <<>> )
          => /\ Len(PushedActivity) = 1
             /\ PushedActivity[1].userId = TheUpdate.userId]_vars

\* the records of a batch that carry a subject id
WithSubject(records) == SelectSeq(records, LAMBDA r : r.userId # Undefined)

(* C24: a presence update, a voice state or a message without a subject id
   appends no entry and changes neither the log, the last known statuses, the
   processed ids, the tracked set nor the saved copies; the other records of
   its batch are processed as if it were not there. *)
C24_MissingIdSkipped ==
    [][/\ \A i \in 1..Len(Pushed) : Pushed[i].userId \in Users
       /\ (ev'.op = "presence" /\ "updates" \in DOMAIN ev'.data)
            => LET rest == WithSubject(ev'.data.updates)
                   st == PresenceResult(Cur, autoTrackAll, trackedUserIds,
                                        [ev'.data EXCEPT !.updates = rest])
               IN  /\ <<activityLogs', lastKnownStatus', store', pushes'>>
                         = <<st.logs, st.lks, st.store, st.pushes>>
                   /\ UNCHANGED <<processedMessageIds, trackedUserIds>>
                   /\ rest = <<>> => UNCHANGED <<activityLogs, lastKnownStatus, store>>
       /\ (ev'.op = "voice" /\ "voiceStates" \in DOMAIN ev'.data)
            => LET rest == WithSubject(ev'.data.voiceStates)
                   st == VoiceResult(Cur, autoTrackAll, trackedUserIds,
                                     [ev'.data EXCEPT !.voiceStates = rest])
               IN  /\ <<activityLogs', store', pushes'>> = <<st.logs, st.store, st.pushes>>
                   /\ UNCHANGED <<lastKnownStatus, processedMessageIds, trackedUserIds>>
                   /\ rest = <<>> => UNCHANGED <<activityLogs, store>>
       /\ (IsMessageStep /\ TheMessage.authorId = Undefined)
            => /\ Pushed = <<>>
               /\ UNCHANGED <<activityLogs, lastKnownStatus, processedMessageIds,
                              trackedUserIds, store>>]_vars

\* a batch of an update without a user id and then a change of u1 to idle has
\* just been handled: the change is logged and notified
C24_Witness ==
    /\ ev.op = "presence"
    /\ "updates" \in DOMAIN ev.data
    /\ Len(ev.data.updates) = 2
    /\ ev.data.updates[1].userId = Undefined
    /\ ev.data.updates[2].userId = "u1"
    /\ ev.data.updates[2].status = "idle"
    /\ notifications # <<>>
    /\ activityLogs # <<>>
    /\ activityLogs[Len(activityLogs)].type = "status"
    /\ activityLogs[Len(activityLogs)].status.status = "idle"
    /\ lastKnownStatus["u1"] = "idle"

(* C25: when handlePresenceUpdates, handleVoiceStateUpdate or
   handleMessageCreate returns after pushing an entry, the text saved under
   activityLogs parses to the log in memory: the same entries, in the same
   order, of the same length. *)
C25_SavedAfterEviction ==
    [][(ev'.op \in {"presence", "voice", "message"} /\ NewEntries # <<>>)
         => /\ Parses(store'.activityLogs)
            /\ SameLog(JSONParse(store'.activityLogs), activityLogs')]_vars

\* the Status entries of this subject the step pushed, oldest first
PushedStatusOf(userId) ==
    SelectSeq(NewEntries, LAMBDA l : l.type = "status" /\ l.userId = userId)

(* C26: a step changes the last known status of a subject only when it pushes
   a Status entry of the subject, and leaves it at the status of the last such
   entry; so it is at every moment the status of the last Status entry pushed
   for the subject. A Status entry pushed for a subject never carries the
   status of the one pushed before it for the same subject. *)
C26_LastKnownStatus ==
    [][\A userId \in Users :
         LET pushed == PushedStatusOf(userId)
         IN  /\ pushed = <<>> => lastKnownStatus'[userId] = lastKnownStatus[userId]
             /\ pushed # <<>>
                  => /\ lastKnownStatus'[userId] = pushed[Len(pushed)].status.status
                     /\ pushed[1].status.status # lastKnownStatus[userId]
             /\ \A i \in 1..(Len(pushed) - 1) :
                    pushed[i].status.status # pushed[i + 1].status.status]_vars

\* u1 went online and then idle: both are logged, idle is the last known status
C26_Witness ==
    /\ ev.op = "presence"
    /\ "updates" \in DOMAIN ev.data
    /\ Len(ev.data.updates) = 1
    /\ ev.data.updates[1].userId = "u1"
    /\ ev.data.updates[1].status = "idle"
    /\ Len(activityLogs) = 2
    /\ \A i \in 1..2 : activityLogs[i].type = "status" /\ activityLogs[i].userId = "u1"
    /\ activityLogs[1].status.status = "online"
    /\ activityLogs[2].status.status = "idle"
    /\ lastKnownStatus["u1"] = "idle"

(* C27: trackUser and untrackUser leave the log, the last known statuses and
   the processed ids as they were; clearLogs and Clear All leave the last known
   statuses and the processed ids as they were. So with the log emptied, an
   update of an admitted subject that repeats its last known status, and a
   message of an admitted author whose id is among the processed ids, append
   nothing. *)
C27_FrameOfRegistryAndClear ==
    [][/\ ev'.op \in {"trackUser", "untrackUser"}
            => UNCHANGED <<activityLogs, lastKnownStatus, processedMessageIds>>
       /\ ev'.op \in {"clearLogs", "clearAll"}
            => UNCHANGED <<lastKnownStatus, processedMessageIds>>
       /\ ( /\ IsPresenceStep
            /\ activityLogs = <<>>
            /\ TheUpdate.userId \in Users
            /\ TheUpdate.status # Undefined
            /\ TheUpdate.status = lastKnownStatus[TheUpdate.userId] )
          => PushedStatus = <<>>
       /\ ( /\ IsMessageStep
            /\ activityLogs = <<>>
            /\ TheMessage.id # Undefined
            /\ TheMessage.id \in ProcessedIds )
          => Pushed = <<>>]_vars

\* the log was cleared after u1 went online, and the update that says online
\* again has just been handled while u1 is tracked: the log is still empty
C27_Witness ==
    /\ ev.op = "presence"
    /\ "updates" \in DOMAIN ev.data
    /\ Len(ev.data.updates) = 1
    /\ ev.data.updates[1].userId = "u1"
    /\ ev.data.updates[1].status = "online"
    /\ "u1" \in trackedUserIds
    /\ lastKnownStatus["u1"] = "online"
    /\ "m1" \in ProcessedIds
    /\ activityLogs = <<>>

(* C28: a message that carries no id is never taken for a duplicate: each
   delivery of it from an admitted author appends one Message entry, and the
   processed ids stay as they were. *)
C28_NoIdNotDeduplicated ==
    [][( /\ IsMessageStep
         /\ TheMessage.authorId \in Users
         /\ Tracked(TheMessage.authorId)
         /\ TheMessage.id = Undefined )
       => /\ Len(Pushed) = 1
          /\ Pushed[1].type = "message"
          /\ Pushed[1].userId = TheMessage.authorId
          /\ Pushed[1].message.content = TheMessage.content
          /\ UNCHANGED processedMessageIds]_vars

\* after a message with the id m1, the same message without an id was
\* delivered twice: the log holds both deliveries and m1 alone is processed
C28_Witness ==
    /\ ev.op = "message"
    /\ ev.message.id = Undefined
    /\ ev.message.authorId = "u1"
    /\ processedMessageIds = <<"m1">>
    /\ Len(activityLogs) = MAX_LOGS
    /\ \A i \in 1..MAX_LOGS :
          /\ activityLogs[i].type = "message"
          /\ activityLogs[i].userId = "u1"
          /\ activityLogs[i].message.content = ContentOf(Undefined)
          /\ activityLogs[i].timestamp = now

====
